---- MODULE Spec2Model ----
(***************************************************************************)
(* rakkess: the access matrix of a user, built by ResourceAccess.Table    *)
(* (internal/client/result/resource.go) and written by the printer        *)
(* package (Table.Render, Outcome.Render, Bold).                           *)
(*                                                                         *)
(* Strings are sequences of bytes (naturals below 256), so that cutting a  *)
(* name at its first dot, joining it back, upper-casing a verb, comparing  *)
(* two names and looking for an escape byte are computed, not assumed.     *)
(***************************************************************************)
EXTENDS Integers, Sequences, FiniteSets, TLC

VARIABLES
    ra,        \* the ResourceAccess: name -> (verb -> Access)
    verbs,     \* the verb list given to Table
    table,     \* the rows ResourceAccess.Table returned
    pc,        \* "input" before Table has run, "built" after
    p,         \* the printer.Table that is rendered
    once,      \* sync.Once of the printer package: TRUE once Do has run
    termCache, \* the terminal detection initTerminal stored ("unset" before)
    renders,   \* one record per finished call of Table.Render
    cell       \* the last result of a direct call of Outcome.Render

vars == <<ra, verbs, table, pc, p, once, termCache, renders, cell>>

----------------------------------------------------------------------------
(* Bounds of the model.                                                    *)

MaxKeys == 2

MaxVerbs == 2

MaxRows == 2

MaxRenders == 2

----------------------------------------------------------------------------
(* Bytes and strings.                                                      *)

Dot == <<46>>

Colon == <<58>>

Space == <<32>>

Tab == <<9>>

Newline == <<10>>

Core == <<99, 111, 114, 101>>

RECURSIVE Concat(_)
\* strings.Join(ss, ""): the strings of ss one after the other
Concat(ss) == IF ss = <<>> THEN <<>> ELSE Head(ss) \o Concat(Tail(ss))

\* the position of the first "." in s, 0 when there is none (strings.Index)
IndexDot(s) ==
    IF \E i \in 1..Len(s) : s[i] = Dot[1]
    THEN CHOOSE i \in 1..Len(s) : s[i] = Dot[1] /\ \A j \in 1..(i - 1) : s[j] # Dot[1]
    ELSE 0

ToUpperByte(c) == IF c \in 97..122 THEN c - 32 ELSE c

ToUpper(s) == [i \in 1..Len(s) |-> ToUpperByte(s[i])]

RECURSIVE StrLess(_, _)
\* cmp.Less on strings: byte-wise lexicographic, a proper prefix is smaller
StrLess(x, y) ==
    IF y = <<>> THEN FALSE
    ELSE IF x = <<>> THEN TRUE
    ELSE IF Head(x) # Head(y) THEN Head(x) < Head(y)
    ELSE StrLess(Tail(x), Tail(y))

----------------------------------------------------------------------------
(* schema.GroupResource                                                    *)

ParseGroupResource(name) ==
    LET i == IndexDot(name) IN
    IF i > 0
    THEN [Group |-> SubSeq(name, i + 1, Len(name)), Resource |-> SubSeq(name, 1, i - 1)]
    ELSE [Group |-> <<>>, Resource |-> name]

String(gr) ==
    IF Len(gr.Group) = 0 THEN gr.Resource ELSE gr.Resource \o Dot \o gr.Group

----------------------------------------------------------------------------
(* printer.Outcome and result.Access                                       *)

None == 0

Up == 1

Down == 2

Err == 3

Access == {"Denied", "Allowed", "NotApplicable", "RequestErr"}

\* what res[v] yields when res has no entry for v
AccessZero == "NotApplicable"

AccessLookup(res, v) == IF v \in DOMAIN res THEN res[v] ELSE AccessZero

OutcomeOf(a) ==
    CASE a = "Denied" -> Down
      [] a = "Allowed" -> Up
      [] a = "NotApplicable" -> None
      [] a = "RequestErr" -> Err
      [] OTHER -> None

----------------------------------------------------------------------------
(* ResourceAccess.Table                                                    *)

\* less with the two keys exchanged: first by resource, then by group
lessResourceFirst(x, y) ==
    IF x.Resource # y.Resource THEN StrLess(x.Resource, y.Resource)
    ELSE StrLess(x.Group, y.Group)

\* the comparison handed to sort.Slice: first by group, then by resource
less(x, y) ==
    IF x.Group # y.Group THEN StrLess(x.Group, y.Group)
    ELSE StrLess(x.Resource, y.Resource)

Swap(data, i, j) == [data EXCEPT ![i] = data[j], ![j] = data[i]]

RECURSIVE Sift(_, _)
Sift(data, j) ==
    IF j > 1 /\ less(data[j], data[j - 1])
    THEN Sift(Swap(data, j, j - 1), j - 1)
    ELSE data

RECURSIVE InsertionSort(_, _)
InsertionSort(data, i) ==
    IF i > Len(data) THEN data ELSE InsertionSort(Sift(data, i), i + 1)

\* sort.Slice(groupResources, less): an insertion sort for slices this short
SortSlice(data) == InsertionSort(data, 2)

\* GroupResources keeping one element per (group, resource)
GroupResourcesDistinct(names) ==
    LET all == [i \in 1..Len(names) |-> ParseGroupResource(names[i])]
        keep(i) == \A j \in 1..(i - 1) : all[j] # all[i]
        first == {i \in 1..Len(names) : keep(i)}
        pos(i) == Cardinality({j \in first : j <= i})
    IN  [k \in 1..Cardinality(first) |-> all[CHOOSE i \in first : pos(i) = k]]

\* the slice built by ranging over the map, names in iteration order
GroupResources(names) == [i \in 1..Len(names) |-> ParseGroupResource(names[i])]

UpperVerbs(vs) == [i \in 1..Len(vs) |-> ToUpper(vs[i])]

Row(intro, entries) == [Intro |-> intro, Entries |-> entries]

DisplayGroup(group) == IF group = <<>> THEN Core ELSE group

\* GroupRows without the tests of i: a spacer before every header, and no
\* header for a first group that is the empty one
GroupRowsNoFirst(gr, i, lastGroup, upperVerbs) ==
    IF gr.Group # lastGroup
    THEN <<Row(<<Space>>, <<None>>),
           Row(<<DisplayGroup(gr.Group) \o Colon>> \o upperVerbs, <<None>>)>>
    ELSE <<>>

\* the rows added before the data row of gr, the i-th element (from 0)
GroupRows(gr, i, lastGroup, upperVerbs) ==
    IF gr.Group # lastGroup \/ i = 0
    THEN (IF i # 0 THEN <<Row(<<Space>>, <<None>>)>> ELSE <<>>)
         \o <<Row(<<DisplayGroup(gr.Group) \o Colon>> \o upperVerbs, <<None>>)>>
    ELSE <<>>

\* one outcome per verb, from the inner map res
Outcomes(res, vs) == [i \in 1..Len(vs) |-> OutcomeOf(AccessLookup(res, vs[i]))]

\* ra[key], the empty (nil) map when ra has no such key
Lookup(m, key) == IF key \in DOMAIN m THEN m[key] ELSE <<>>

DataRow(m, gr, vs) == Row(<<gr.Resource>>, Outcomes(Lookup(m, String(gr)), vs))

RECURSIVE Body(_, _, _, _, _)
\* the loop over groupResources from its k-th element (from 1) on
Body(grs, k, lastGroup, m, vs) ==
    IF k > Len(grs) THEN <<>>
    ELSE GroupRows(grs[k], k - 1, lastGroup, UpperVerbs(vs))
         \o <<DataRow(m, grs[k], vs)>>
         \o Body(grs, k + 1,
                 IF grs[k].Group # lastGroup \/ k - 1 = 0 THEN grs[k].Group ELSE lastGroup,
                 m, vs)

\* ResourceAccess.Table(verbs), the map ranged over in the order names
Table(m, vs, names) ==
    [Headers |-> <<>>, Rows |-> Body(SortSlice(GroupResources(names)), 1, <<>>, m, vs)]

----------------------------------------------------------------------------
(* printer: colors, outcomes and renderable cells                          *)

red == 31

green == 32

purple == 35

none == 0

\* the result of a call that may panic: a string, or the panic
Str(s) == [panic |-> FALSE, s |-> s]

Panic == [panic |-> TRUE, s |-> <<>>]

RECURSIVE Itoa(_)
\* the decimal digits of n, as fmt prints %d
Itoa(n) == IF n < 10 THEN <<48 + n>> ELSE Itoa(n \div 10) \o <<48 + (n % 10)>>

\* humanreadableAccessCode with a blank for an unknown code
humanreadableBlankDefault(o) ==
    CASE o = None -> Str(<<>>)
      [] o = Up -> Str(<<226, 156, 148>>)
      [] o = Down -> Str(<<226, 156, 150>>)
      [] o = Err -> Str(<<69, 82, 82>>)
      [] OTHER -> Str(<<>>)

humanreadableAccessCode(o) ==
    CASE o = None -> Str(<<>>)
      [] o = Up -> Str(<<226, 156, 148>>)
      [] o = Down -> Str(<<226, 156, 150>>)
      [] o = Err -> Str(<<69, 82, 82>>)
      [] OTHER -> Panic

asciiAccessCode(o) ==
    CASE o = None -> Str(<<110, 47, 97>>)
      [] o = Up -> Str(<<121, 101, 115>>)
      [] o = Down -> Str(<<110, 111>>)
      [] o = Err -> Str(<<69, 82, 82>>)
      [] OTHER -> Panic

\* ColorOf with the colors of Up and Down exchanged
ColorOfSwapped(o) ==
    CASE o = Up -> red
      [] o = Down -> green
      [] o = Err -> purple
      [] OTHER -> none

\* the color colored picks for o
ColorOf(o) ==
    CASE o = Up -> green
      [] o = Down -> red
      [] o = Err -> purple
      [] OTHER -> none

\* colored(wrap)(o), w being wrap(o): Sprintf gets wrap(o) as an argument, so
\* a panic of wrap is a panic of the colored function
colored(w, o) ==
    LET c == ColorOf(o) IN
    IF w.panic THEN Panic
    ELSE Str(<<255, 27, 91>> \o Itoa(c) \o <<109, 255>> \o w.s
             \o <<255, 27, 91, 48, 109, 255>>)

AsciiTable == "ascii-table"

Env(isTerm, format) == [IsTerminal |-> isTerm, OutputFormat |-> format]

\* Outcome.Render
OutcomeRender(o, e) ==
    IF e.OutputFormat = AsciiTable THEN asciiAccessCode(o)
    ELSE IF e.IsTerminal THEN colored(humanreadableAccessCode(o), o)
    ELSE humanreadableAccessCode(o)

\* a Renderable: the Text s under depth applications of Bold
Text(s) == [s |-> s, bold |-> 0]

Bold(in) == [in EXCEPT !.bold = @ + 1]

BoldText(s) == Bold(Text(s))

RECURSIVE CellRender(_, _)
\* Renderable.Render: Text.Render, or the function Bold made
CellRender(r, e) ==
    IF r.bold = 0 THEN r.s
    ELSE LET inner == CellRender([r EXCEPT !.bold = @ - 1], e) IN
         IF ~e.IsTerminal THEN inner
         ELSE <<255, 27, 91, 49, 109>> \o inner \o <<27, 91, 48, 109, 255>>

TableWithHeaders(headers) == [Headers |-> headers, Rows |-> <<>>]

AddRow(t, intro, outcomes) == [t EXCEPT !.Rows = Append(@, Row(intro, outcomes))]

----------------------------------------------------------------------------
(* Table.Render                                                            *)

\* the writers a caller may hand to Render: a terminal, a pipe, and a writer
\* whose Write fails
Streams == {"tty", "pipe", "closed"}

IsTTY(out) == out = "tty"

WriteFails(out) == out = "closed"

\* a Do that runs f at every call
OnceDoAlways(done) == TRUE

\* once.Do(f) runs f when no Do has run before
OnceDo(done) == ~done

\* initTerminal(out): the detection it stores for the process
initTerminal(out) == IF IsTTY(out) THEN "terminal" ELSE "plain"

\* isTerminal(out), with the detection stored for the process
isTerminal(out, cache) == cache = "terminal"

\* the header line: cells joined by tabs, then a newline
HeaderPieces(headers, e) ==
    [i \in 1..Len(headers) |->
        Str((IF i = 1 THEN <<>> ELSE Tab) \o CellRender(headers[i], e))]
    \o <<Str(Newline)>>

\* one body line: the intro cells joined by tabs, a tab before every outcome
RowPieces(row, e) ==
    [i \in 1..Len(row.Intro) |->
        Str((IF i = 1 THEN <<>> ELSE Tab) \o CellRender(row.Intro[i], e))]
    \o [i \in 1..Len(row.Entries) |->
        LET r == OutcomeRender(row.Entries[i], e) IN
        IF r.panic THEN Panic ELSE Str(Tab \o r.s)]
    \o <<Str(Newline)>>

RECURSIVE BodyPieces(_, _)
BodyPieces(rows, e) ==
    IF rows = <<>> THEN <<>> ELSE RowPieces(Head(rows), e) \o BodyPieces(Tail(rows), e)

Panicked(pieces) == \E i \in 1..Len(pieces) : pieces[i].panic

RECURSIVE Written(_)
\* what reached the tabwriter: every piece before the first panic
Written(pieces) ==
    IF pieces = <<>> \/ Head(pieces).panic THEN <<>>
    ELSE Head(pieces).s \o Written(Tail(pieces))

\* the tabwriter's flush with StripEscape: the 0xff marks are dropped, the
\* text between them is passed on byte for byte (cell padding is not modelled)
StripEscape(buf) == SelectSeq(buf, LAMBDA c : c # 255)

\* what the caller of Render gets back, flushErr being the error of w.Flush():
\* Render has no result, and the deferred Flush's error is dropped
RenderReturn(flushErr) == "nothing"

\* Table.Render(out, outputFormat) on t: the record of the call, with the new
\* state of once and of the stored detection
TableRender(t, out, outputFormat, done, cache) ==
    LET runInit == OnceDo(done)
        cache2 == IF runInit THEN initTerminal(out) ELSE cache
        env == Env(isTerminal(out, cache2), outputFormat)
        pieces == HeaderPieces(t.Headers, env) \o BodyPieces(t.Rows, env)
        flushErr == WriteFails(out)
    IN  [out |-> out, env |-> env, detected |-> runInit, cache |-> cache2,
         bytes |-> StripEscape(Written(pieces)), panicked |-> Panicked(pieces),
         writeErr |-> flushErr, returned |-> RenderReturn(flushErr)]

----------------------------------------------------------------------------
(* Inputs                                                                  *)

\* resource names: "", "a", "B", "a.", ".a", "a.B", "a.B.a"
Names ==
    { <<>>, <<97>>, <<66>>, <<97, 46>>, <<46, 97>>, <<97, 46, 66>>,
      <<97, 46, 66, 46, 97>> }

Get == <<103, 101, 116>>

List == <<108, 105, 115, 116>>

VerbNames == {Get, List}

\* the inner maps a resource may hold: both verbs, or "get" alone
Profiles ==
    { (Get :> "Allowed") @@ (List :> "Denied"),
      (Get :> "RequestErr"),
      (Get :> "NotApplicable") @@ (List :> "Allowed") }

SeqsUpTo(S, n) == UNION {[1..k -> S] : k \in 0..n}

\* the orders in which ranging over a map with key set K may visit it
Orders(K) == {f \in [1..Cardinality(K) -> K] : \A i, j \in DOMAIN f : f[i] = f[j] => i = j}

NoTable == [Headers |-> <<>>, Rows |-> <<>>]

NoCell == [o |-> 0, e |-> Env(FALSE, "default"), called |-> FALSE, result |-> Str(<<>>)]

\* the result package before Table is called
InitResult ==
    /\ \E K \in SUBSET Names :
          /\ Cardinality(K) <= MaxKeys
          /\ ra \in [K -> Profiles]
    /\ verbs \in SeqsUpTo(VerbNames, MaxVerbs)
    /\ table = NoTable
    /\ pc = "input"

\* the printer package before any Render
InitPrinter ==
    /\ p = TableWithHeaders(<<>>)
    /\ once = FALSE
    /\ termCache = "unset"
    /\ renders = <<>>

Init == InitResult /\ InitPrinter /\ cell = NoCell

\* a call of ra.Table(verbs)
CallTable ==
    /\ pc = "input"
    /\ \E names \in Orders(DOMAIN ra) : table' = Table(ra, verbs, names)
    /\ pc' = "built"
    /\ UNCHANGED <<ra, verbs, p, once, termCache, renders, cell>>

Next == CallTable

Spec == Init /\ [][Next]_vars

----------------------------------------------------------------------------
(* The printer package: a table is built with AddRow, then rendered.       *)

\* header rows: none, or NAME and GET
HeaderChoices == { <<>>, <<Text(<<78, 65, 77, 69>>), Text(<<71, 69, 84>>)>> }

\* rows: a resource with two outcomes, a bold group label, a row that holds
\* an Outcome outside the four named ones
RowChoices ==
    { Row(<<Text(<<97>>)>>, <<Up, Down>>),
      Row(<<BoldText(<<97, 58>>)>>, <<None>>),
      Row(<<Text(<<66>>)>>, <<Err, 4>>) }

Formats == {AsciiTable, "default"}

\* the result package is not part of these runs
IdleResult == ra = <<>> /\ verbs = <<>> /\ table = NoTable /\ pc = "idle"

InitRender ==
    /\ IdleResult
    /\ p \in {TableWithHeaders(h) : h \in HeaderChoices}
    /\ once = FALSE
    /\ termCache = "unset"
    /\ renders = <<>>
    /\ cell = NoCell

\* p.AddRow(intro, outcomes...), while the table is being built
CallAddRow ==
    /\ renders = <<>>
    /\ Len(p.Rows) < MaxRows
    /\ \E r \in RowChoices : p' = AddRow(p, r.Intro, r.Entries)
    /\ UNCHANGED <<ra, verbs, table, pc, once, termCache, renders, cell>>

\* p.Render(out, outputFormat)
CallRender ==
    /\ Len(renders) < MaxRenders
    /\ \E out \in Streams, outputFormat \in Formats :
          LET r == TableRender(p, out, outputFormat, once, termCache) IN
          /\ renders' = Append(renders, r)
          /\ once' = TRUE
          /\ termCache' = r.cache
    /\ UNCHANGED <<ra, verbs, table, pc, p, cell>>

NextRender == CallAddRow \/ CallRender

SpecRender == InitRender /\ [][NextRender]_vars

----------------------------------------------------------------------------
(* Outcome.Render on its own, for every value of the uint8 and every Env.  *)

Uint8 == 0..255

Envs == {Env(t, f) : t \in BOOLEAN, f \in Formats \cup {"json"}}

InitOutcome ==
    /\ IdleResult
    /\ InitPrinter
    /\ \E o \in Uint8, e \in Envs :
          cell = [o |-> o, e |-> e, called |-> FALSE, result |-> Str(<<>>)]

\* o.Render(e)
CallOutcomeRender ==
    /\ ~cell.called
    /\ cell' = [cell EXCEPT !.called = TRUE, !.result = OutcomeRender(cell.o, cell.e)]
    /\ UNCHANGED <<ra, verbs, table, pc, p, once, termCache, renders>>

NextOutcome == CallOutcomeRender

SpecOutcome == InitOutcome /\ [][NextOutcome]_vars

----------------------------------------------------------------------------
(* Properties of ResourceAccess.Table, read off the rows of the table.     *)
(* No name of Names holds a space or has the group "core", so a row's kind *)
(* and a header's group are recognised from the row itself.                *)

Rows == table.Rows

IsSpacer(r) == r = Row(<<Space>>, <<None>>)

IsHeader(r) ==
    /\ ~IsSpacer(r)
    /\ Len(r.Intro) = Len(verbs) + 1
    /\ r.Entries = <<None>>

IsData(r) == ~IsSpacer(r) /\ ~IsHeader(r)

DataIdx == {i \in DOMAIN Rows : IsData(Rows[i])}

HeaderIdx == {i \in DOMAIN Rows : IsHeader(Rows[i])}

SpacerIdx == {i \in DOMAIN Rows : IsSpacer(Rows[i])}

\* the group header that governs row i: the last one before it (0: none)
HeaderOf(i) ==
    IF \E h \in HeaderIdx : h < i
    THEN CHOOSE h \in HeaderIdx : h < i /\ \A g \in HeaderIdx : g < i => g <= h
    ELSE 0

\* the group a header label stands for: "core:" is the empty group
GroupOfLabel(label) ==
    LET g == SubSeq(label, 1, Len(label) - 1) IN IF g = Core THEN <<>> ELSE g

RowGroup(i) == GroupOfLabel(Rows[HeaderOf(i)].Intro[1])

RowResource(i) == Rows[i].Intro[1]

\* the outcome the claim asks for: the access a map holds, None without entry
ExpectedOutcome(res, v) ==
    IF v \notin DOMAIN res THEN 0
    ELSE CASE res[v] = "Allowed" -> 1
           [] res[v] = "Denied" -> 2
           [] res[v] = "RequestErr" -> 3
           [] res[v] = "NotApplicable" -> 0

ExpectedEntries(res) == [j \in 1..Len(verbs) |-> ExpectedOutcome(res, verbs[j])]

\* row i is the data row of the key name
IsRowOf(i, name) ==
    /\ i \in DataIdx
    /\ HeaderOf(i) # 0
    /\ RowGroup(i) = ParseGroupResource(name).Group
    /\ RowResource(i) = ParseGroupResource(name).Resource

\* (g1, r1) <= (g2, r2), the group compared first, byte by byte
PairLeq(g1, r1, g2, r2) ==
    \/ StrLess(g1, g2)
    \/ g1 = g2 /\ (r1 = r2 \/ StrLess(r1, r2))

Groups == {ParseGroupResource(n).Group : n \in DOMAIN ra}

ExpectedUpper(v) == IF v = Get THEN <<71, 69, 84>> ELSE <<76, 73, 83, 84>>

ExpectedLabel(g) == (IF g = <<>> THEN <<99, 111, 114, 101>> ELSE g) \o <<58>>

\* C1: every data row has len(verbs) outcome cells in the order of verbs, and
\* the row of each key of ra holds, cell by cell, the outcome ra holds for that
\* key and verb (Allowed Up, Denied Down, RequestErr Err, NotApplicable None),
\* None where the inner map has no entry.
C1_RowsHoldOutcomes ==
    pc = "built" =>
        /\ \A i \in DataIdx : Len(Rows[i].Entries) = Len(verbs)
        /\ \A name \in DOMAIN ra :
              \E i \in DataIdx :
                  IsRowOf(i, name) /\ Rows[i].Entries = ExpectedEntries(ra[name])

\* C2: of any two data rows, the earlier one's (group, resource) is less than
\* or equal to the later one's, the group compared first and as its literal
\* value, byte by byte.
C2_RowsSorted ==
    pc = "built" =>
        \A i, j \in DataIdx :
            i < j => PairLeq(RowGroup(i), RowResource(i), RowGroup(j), RowResource(j))

C2_Witness ==
    /\ pc = "built"
    /\ \E i, j \in DataIdx :
          /\ i < j
          /\ RowGroup(i) = <<66>>
          /\ RowGroup(j) = <<97>>

\* C3: a non-empty input gives one group header per distinct group, right
\* before the first data row of the group, one spacer right before every
\* header but the first, no leading spacer, and each header reads "<group>:"
\* ("core:" for the empty group) followed by the verbs in upper case.
C3_GroupHeaders ==
    (pc = "built" /\ DOMAIN ra # {}) =>
        /\ Cardinality(HeaderIdx) = Cardinality(Groups)
        /\ Cardinality(SpacerIdx) = Cardinality(Groups) - 1
        /\ 1 \in HeaderIdx
        /\ {Rows[h].Intro[1] : h \in HeaderIdx} = {ExpectedLabel(g) : g \in Groups}
        /\ \A h \in HeaderIdx :
              /\ h + 1 \in DataIdx
              /\ h > 1 => h - 1 \in SpacerIdx /\ h - 2 \in DataIdx
              /\ Tail(Rows[h].Intro) = [j \in 1..Len(verbs) |-> ExpectedUpper(verbs[j])]
        /\ \A i \in SpacerIdx : i + 1 \in HeaderIdx
        /\ \A i, j \in DataIdx : RowGroup(i) = RowGroup(j) => HeaderOf(i) = HeaderOf(j)
        /\ \A name \in DOMAIN ra : \E i \in DataIdx : IsRowOf(i, name)

C3_Witness ==
    /\ pc = "built"
    /\ Cardinality(Groups) >= 2
    /\ <<>> \in Groups
    /\ Len(verbs) = 2
    /\ verbs[1] # verbs[2]
    /\ Cardinality(SpacerIdx) = Cardinality(Groups) - 1

C10_RoundTrip ==
    pc = "built" =>
        /\ \A name \in DOMAIN ra : String(ParseGroupResource(name)) = name
        /\ \A m, n \in DOMAIN ra :
              ParseGroupResource(m) = ParseGroupResource(n) => m = n

----------------------------------------------------------------------------
(* Properties of the printer package.                                      *)

HasEscape(bytes) == \E i \in 1..Len(bytes) : bytes[i] = 27

\* C5: every render with the format "ascii-table" writes bytes without an ANSI
\* escape, and two such renders of the table write the same bytes, whatever
\* the cells and whether or not the destination is a terminal.
C5_AsciiPlain ==
    \A i \in DOMAIN renders :
        renders[i].env.OutputFormat = AsciiTable =>
            /\ ~HasEscape(renders[i].bytes)
            /\ \A j \in DOMAIN renders :
                  renders[j].env.OutputFormat = AsciiTable =>
                      renders[j].bytes = renders[i].bytes

\* C7: a render whose write to the stream failed hands the failure to its
\* caller, who can tell it from a render that succeeded.
C7_WriteErrorReturned ==
    \A i \in DOMAIN renders : renders[i].writeErr => renders[i].returned = "error"

Wrapped(digits, glyph) ==
    <<255, 27, 91>> \o digits \o <<109, 255>> \o glyph \o <<255, 27, 91, 48, 109, 255>>

ColorCase == cell.called /\ cell.e.IsTerminal /\ cell.e.OutputFormat # "ascii-table"

\* C6 as stated: on a terminal and without "ascii-table", Allowed, Denied and
\* Error are wrapped in green 32, red 31 and purple 35, and the rendering of
\* None holds no escape sequence.
C6_NoneUnwrapped ==
    ColorCase =>
        /\ cell.o = 1 => cell.result = Str(Wrapped(<<51, 50>>, <<226, 156, 148>>))
        /\ cell.o = 2 => cell.result = Str(Wrapped(<<51, 49>>, <<226, 156, 150>>))
        /\ cell.o = 3 => cell.result = Str(Wrapped(<<51, 53>>, <<69, 82, 82>>))
        /\ cell.o = 0 => ~cell.result.panic /\ ~HasEscape(cell.result.s)

\* C6 as amended: on a terminal and without "ascii-table", Allowed, Denied and
\* Error are wrapped in green 32, red 31 and purple 35, and None is wrapped
\* too, its empty glyph between the escape of code 0 and the reset.
C6_ColorWrap ==
    ColorCase =>
        /\ cell.o = 1 => cell.result = Str(Wrapped(<<51, 50>>, <<226, 156, 148>>))
        /\ cell.o = 2 => cell.result = Str(Wrapped(<<51, 49>>, <<226, 156, 150>>))
        /\ cell.o = 3 => cell.result = Str(Wrapped(<<51, 53>>, <<69, 82, 82>>))
        /\ cell.o = 0 => cell.result = Str(Wrapped(<<48>>, <<>>))

C6_Witness ==
    /\ ColorCase
    /\ cell.e.OutputFormat = "default"
    /\ cell.o = 0
    /\ HasEscape(cell.result.s)

\* C9: for an Outcome that is none of None, Up, Down, Err, Render panics and
\* returns no string, in every Env.
C9_UnknownPanics ==
    (cell.called /\ cell.o \notin {0, 1, 2, 3}) => cell.result = Panic

C9_Witness ==
    /\ cell.called
    /\ cell.o = 255
    /\ cell.e.IsTerminal
    /\ cell.e.OutputFormat = "default"
    /\ cell.result.panic

====
